---------------------------- MODULE Spec2Model ----------------------------
(***************************************************************************)
(* SpyScraper JSON front end (ss_json_output.py).                          *)
(*                                                                         *)
(* maincore() resolves the user-agent list, awaits seven coroutines one    *)
(* after the other (five page extractors and two WHOIS lookups), merges    *)
(* their return values into one dict and serialises it with json.          *)
(*                                                                         *)
(* Python values are modelled as tagged records, [t |-> <type name>, ...], *)
(* so that None, str, list, tuple, dict and datetime stay distinguishable. *)
(* A str is a sequence of text fragments (single characters where the code *)
(* looks inside the text, as str.replace and str.strip do).                *)
(***************************************************************************)
EXTENDS Naturals, Sequences, FiniteSets, TLC

----------------------------------------------------------------------------
(* Bounds of the model *)

\* longest list of e-mail matches a page yields
MaxEmails == 1
\* most <a> elements on a page
MaxAnchors == 1
\* most raw phone matches on a page (from 2 on, one number can occur twice)
MaxPhoneMatches == 3
\* most <meta name="geo.position"> elements on a page
MaxGeoMetas == 1
\* longest list WHOIS returns for one date
MaxDateList == 2
\* most pieces a target URL is put together from
MaxUrlParts == 3

----------------------------------------------------------------------------
(* Python values *)

PyNone == [t |-> "NoneType"]
PyStr(s) == [t |-> "str", v |-> s]
PyList(xs) == [t |-> "list", v |-> xs]
PyTuple(xs) == [t |-> "tuple", v |-> xs]
PyDict(f) == [t |-> "dict", v |-> f]
PyDatetime(i, tz) == [t |-> "datetime", v |-> i, tz |-> tz]

\* the outcome of a call: a returned value, or an exception on its way up
Return(x) == [raised |-> "none", value |-> x]
Raise(e) == [raised |-> e, value |-> PyNone]

\* sequences over S of length 0..n
SeqsUpTo(S, n) == UNION {[1..k -> S] : k \in 0..n}

Range(s) == {s[i] : i \in DOMAIN s}

----------------------------------------------------------------------------
(* str methods *)

IsPrefix(p, s) == Len(p) <= Len(s) /\ SubSeq(s, 1, Len(p)) = p

\* str.replace(old, new): every non-overlapping occurrence, left to right
RECURSIVE str_replace(_, _, _)
str_replace(s, old, new) ==
    IF Len(s) = 0 THEN s
    ELSE IF IsPrefix(old, s)
         THEN new \o str_replace(SubSeq(s, Len(old) + 1, Len(s)), old, new)
         ELSE <<Head(s)>> \o str_replace(Tail(s), old, new)

IsSpace(c) == c \in {" ", "\n", "\t"}

RECURSIVE lstrip(_)
lstrip(s) == IF Len(s) > 0 /\ IsSpace(Head(s)) THEN lstrip(Tail(s)) ELSE s

RECURSIVE rstrip(_)
rstrip(s) ==
    IF Len(s) > 0 /\ IsSpace(s[Len(s)]) THEN rstrip(SubSeq(s, 1, Len(s) - 1)) ELSE s

\* str.strip()
str_strip(s) == rstrip(lstrip(s))

----------------------------------------------------------------------------
(* send_request and the extractors' exception handling *)

\* What one GET can come to: the transport fails (a timeout), or a response
\* with a status code arrives.
Timeout == [transport |-> "timeout", status_code |-> 0]
HttpResponse(code) == [transport |-> "ok", status_code |-> code]
StatusCodes == {200, 404}
GetOutcomes == {Timeout} \cup {HttpResponse(c) : c \in StatusCodes}

\* response.raise_for_status()
raise_for_status(got) == got.status_code < 200 \/ got.status_code >= 300

\* send_request: a transport failure is no HTTPStatusError and passes
\* through; an HTTPStatusError is caught and sys.exit(1) raises SystemExit.
send_request(got, body) ==
    IF got.transport # "ok" THEN Raise("TimeoutException")
    ELSE IF raise_for_status(got) THEN Raise("SystemExit")
    ELSE Return(body)

\* (variant) `except httpx.HTTPStatusError:` in place of the bare `except:`
except_status_only(e) == e = "HTTPStatusError"

\* `except:` with no class catches every BaseException, SystemExit included.
bare_except(e) == TRUE

\* try: <body>  except: return <empty>
try_except(result, empty) ==
    IF result.raised # "none" /\ bare_except(result.raised)
    THEN Return(empty)
    ELSE result

----------------------------------------------------------------------------
(* The page, as far as the extractors look at it: what each regular         *)
(* expression or DOM query finds in it, in document order.                   *)

Page(emails, anchors, author, phones, geo) ==
    [email_matches |-> emails, anchors |-> anchors, meta_author |-> author,
     phone_matches |-> phones, geo_metas |-> geo]

\* soup.find('meta', {'name': 'author'}): no such element, one without a
\* content attribute, one with it
NoMeta == [found |-> FALSE, has_content |-> FALSE, content |-> <<>>]
MetaNoContent == [found |-> TRUE, has_content |-> FALSE, content |-> <<>>]
MetaContent(s) == [found |-> TRUE, has_content |-> TRUE, content |-> s]

\* re.findall(email_regex, response.text)
extract_emails(resp) ==
    try_except(IF resp.raised # "none" THEN resp
               ELSE Return(PyList(resp.value.email_matches)),
               PyList(<<>>))

\* [link.get('href') for link in soup.find_all('a')]: None where an anchor
\* has no href
extract_href(resp) ==
    try_except(IF resp.raised # "none" THEN resp
               ELSE Return(PyList(resp.value.anchors)),
               PyList(<<>>))

\* author_element['content'] raises KeyError when the attribute is missing
author_infos(resp) ==
    try_except(IF resp.raised # "none" THEN resp
               ELSE LET el == resp.value.meta_author
                    IN  IF el.found
                        THEN IF el.has_content THEN Return(PyStr(el.content))
                             ELSE Raise("KeyError")
                        ELSE Return(PyNone),
               PyNone)

\* phonenumbers.parse(number, None): the number must be a str, and with no
\* default region it must carry its country code ("+...").
phonenumbers_parse(number) ==
    IF number.t # "str" THEN Raise("AttributeError")
    ELSE IF Len(number.v) > 0 /\ Head(number.v) = "+"
         THEN Return([t |-> "PhoneNumber", v |-> number.v])
         ELSE Raise("NumberParseException")

\* the loop over unique_phone_numbers; `except: pass` drops what fails
RECURSIVE parse_each(_)
parse_each(nums) ==
    IF Len(nums) = 0 THEN <<>>
    ELSE LET p == phonenumbers_parse(Head(nums))
         IN  (IF p.raised = "none" THEN <<p.value>> ELSE <<>>)
             \o parse_each(Tail(nums))

\* list(set(phone_numbers)): the distinct matches, in any order
set_orders(xs) ==
    LET R == Range(xs)
    IN  {s \in [1..Cardinality(R) -> R] : Range(s) = R}

\* re.findall with four groups yields 4-tuples; `order` is the order in
\* which the set of them is iterated
extract_phone(resp, order) ==
    try_except(IF resp.raised # "none" THEN resp
               ELSE Return(PyList(parse_each(order))),
               PyList(<<>>))

\* element.text.strip() of every <meta name="geo.position">
extract_location(resp) ==
    try_except(IF resp.raised # "none" THEN resp
               ELSE Return(PyList([i \in DOMAIN resp.value.geo_metas |->
                                      PyStr(str_strip(resp.value.geo_metas[i]))])),
               PyList(<<>>))

----------------------------------------------------------------------------
(* The WHOIS lookups *)

HTTPS == <<"h", "t", "t", "p", "s", ":", "/", "/">>
HTTP == <<"h", "t", "t", "p", ":", "/", "/">>
WWWDOT == <<"w", "w", "w", ".">>

\* (variant) the last replace written as .replace("www", "")
creation_update_domain_no_dot(url) ==
    str_replace(str_replace(str_replace(url, HTTPS, <<>>), HTTP, <<>>),
                <<"w", "w", "w">>, <<>>)

\* creation_update: url.replace("https://", "").replace("http://", "").replace("www.", "")
creation_update_domain(url) ==
    str_replace(str_replace(str_replace(url, HTTPS, <<>>), HTTP, <<>>), WWWDOT, <<>>)

\* servers_infos: the same expression, written out a second time
servers_infos_domain(url) ==
    str_replace(str_replace(str_replace(url, HTTPS, <<>>), HTTP, <<>>), WWWDOT, <<>>)

UTC == "+00:00"

\* datetime.replace(tzinfo=tz): the clock reading is kept, the zone is set
datetime_replace_tzinfo(d, tz) == [d EXCEPT !.tz = tz]

\* datetime.isoformat(): the reading, followed by the offset of an aware one
datetime_isoformat(d) == IF d.tz = "naive" THEN <<d.v>> ELSE <<d.v, d.tz>>

\* date.replace(tzinfo=datetime.timezone.utc).isoformat()
iso_utc(d) == PyStr(datetime_isoformat(datetime_replace_tzinfo(d, UTC)))

\* [... for date in dates if isinstance(date, datetime.datetime)]
RECURSIVE iso_each(_)
iso_each(dates) ==
    IF Len(dates) = 0 THEN <<>>
    ELSE (IF Head(dates).t = "datetime" THEN <<iso_utc(Head(dates))>> ELSE <<>>)
         \o iso_each(Tail(dates))

\* (variant) a missing date is passed on as None instead of failing
normalize_date_none_ok(d) ==
    IF d.t = "list" THEN Return(PyList(iso_each(d.v)))
    ELSE IF d.t = "datetime" THEN Return(iso_utc(d))
    ELSE IF d.t = "str" THEN Raise("TypeError")
    ELSE Return(PyNone)

\* One of the three if/else blocks: a list is filtered and converted; of
\* anything else .replace(tzinfo=...) is called, which only a datetime has
\* (str.replace takes no keyword: TypeError; None has no replace:
\* AttributeError).
normalize_date(d) ==
    IF d.t = "list" THEN Return(PyList(iso_each(d.v)))
    ELSE IF d.t = "datetime" THEN Return(iso_utc(d))
    ELSE IF d.t = "str" THEN Raise("TypeError")
    ELSE Raise("AttributeError")

DateKeys == {"creation_date", "expiration_date", "updated_date"}

\* the entry whois.whois(domain) returns
WhoisEntry(c, e, u, ns) ==
    [creation_date |-> c, expiration_date |-> e, updated_date |-> u,
     name_servers |-> ns]

\* creation_update, given what whois.whois came to
creation_update(info) ==
    try_except(
        IF info.raised # "none" THEN info
        ELSE LET c == normalize_date(info.value.creation_date)
                 e == normalize_date(info.value.expiration_date)
                 u == normalize_date(info.value.updated_date)
             IN  IF c.raised # "none" THEN c
                 ELSE IF e.raised # "none" THEN e
                 ELSE IF u.raised # "none" THEN u
                 ELSE Return(PyDict([creation_date |-> c.value,
                                     expiration_date |-> e.value,
                                     updated_date |-> u.value])),
        PyDict(<<>>))

\* servers_infos: whois_info.name_servers as it is
servers_infos(info) ==
    try_except(IF info.raised # "none" THEN info
               ELSE Return(info.value.name_servers),
               PyList(<<>>))

----------------------------------------------------------------------------
(* The merge and json *)

RecordKeys ==
    {"target_url", "emails", "links", "authors", "phones",
     "creation_update_info", "servers", "locations"}

\* (variant) a key whose value is None is left out of the dict
merge_result_drop_none(target, em, li, au, ph, cu, se, lo) ==
    LET all == [target_url |-> PyStr(target), emails |-> em, links |-> li,
                authors |-> au, phones |-> ph, creation_update_info |-> cu,
                servers |-> se, locations |-> lo]
    IN  PyDict([k \in {n \in RecordKeys : all[n].t # "NoneType"} |-> all[k]])

\* the dict literal of maincore
merge_result(target, em, li, au, ph, cu, se, lo) ==
    PyDict([target_url |-> PyStr(target), emails |-> em, links |-> li,
            authors |-> au, phones |-> ph, creation_update_info |-> cu,
            servers |-> se, locations |-> lo])

\* what json's encoder accepts
RECURSIVE json_serializable(_)
json_serializable(x) ==
    CASE x.t \in {"NoneType", "str"} -> TRUE
      [] x.t \in {"list", "tuple", "dict"} ->
            \A i \in DOMAIN x.v : json_serializable(x.v[i])
      [] OTHER -> FALSE

\* the document json writes: None becomes null, list and tuple an array,
\* dict an object
RECURSIVE to_json(_)
to_json(x) ==
    CASE x.t = "NoneType" -> [j |-> "null"]
      [] x.t = "str" -> [j |-> "string", v |-> x.v]
      [] x.t \in {"list", "tuple"} ->
            [j |-> "array", v |-> [i \in DOMAIN x.v |-> to_json(x.v[i])]]
      [] x.t = "dict" ->
            [j |-> "object", v |-> [k \in DOMAIN x.v |-> to_json(x.v[k])]]

\* json.dumps / json.dump
json_dumps(x) ==
    IF json_serializable(x) THEN Return(to_json(x)) ELSE Raise("TypeError")

----------------------------------------------------------------------------
(* maincore as a state machine *)

VARIABLES
    url,          \* args.url
    useragent,    \* args.useragent
    output,       \* args.output: None, or a path
    useragents,   \* the resolved list of user-agents
    pc,           \* where maincore stands
    headers,      \* the User-Agent of the request in flight
    inFlight,     \* the network operations issued and not yet finished
    issued,       \* how many times each operation was issued
    started,      \* the operations, in the order they were begun
    got,          \* what each page GET came to
    queried,      \* the domain each WHOIS lookup asked for
    locals,       \* maincore's emails, links, ..., locations
    written,      \* the JSON document written, and where to
    exit,         \* whether the process has ended, and its exit code
    arg           \* function specifications only: the input of the function

vars ==
    <<url, useragent, output, useragents, pc, headers, inFlight, issued,
      started, got, queried, locals, written, exit, arg>>

PageOps ==
    {"extract_emails", "extract_href", "author_infos", "extract_phone",
     "extract_location"}
RegistryOps == {"creation_update", "servers_infos"}
Ops == PageOps \cup RegistryOps

\* (variant) extract_location awaited with the other page extractors
Pipeline_extractors_first ==
    <<"extract_emails", "extract_href", "author_infos", "extract_phone",
      "extract_location", "creation_update", "servers_infos">>

\* the awaits of maincore, top to bottom
Pipeline ==
    <<"extract_emails", "extract_href", "author_infos", "extract_phone",
      "creation_update", "servers_infos", "extract_location">>

IndexOf(op) == CHOOSE i \in DOMAIN Pipeline : Pipeline[i] = op

\* (variant) an operation that failed is tried once more
after_await_retry(op, failed) ==
    IF failed /\ issued[op] < 2 THEN op
    ELSE IF IndexOf(op) < Len(Pipeline) THEN Pipeline[IndexOf(op) + 1]
    ELSE "write"

\* Where maincore goes on when the awaited coroutine has returned: to the
\* next statement, whether or not the operation failed.
after_await(op, failed) ==
    IF IndexOf(op) < Len(Pipeline) THEN Pipeline[IndexOf(op) + 1] ELSE "write"

\* the local each coroutine's value is bound to
LocalOf ==
    [extract_emails |-> "emails", extract_href |-> "links",
     author_infos |-> "authors", extract_phone |-> "phones",
     creation_update |-> "creation_update_info",
     servers_infos |-> "servers", extract_location |-> "locations"]

Unbound == [t |-> "unbound"]
NotAsked == [transport |-> "none", status_code |-> 0]
NotQueried == [asked |-> FALSE, domain |-> <<>>]
Nothing == [sink |-> "none", doc |-> [j |-> "none"]]
Running == [done |-> FALSE, code |-> 0]
Exited(c) == [done |-> TRUE, code |-> c]

(* inputs *)

EXAMPLECOM == <<"e", "x", "a", "m", "p", "l", "e", ".", "c", "o", "m">>
WWW == <<"w", "w", "w">>
\* "https://www.example.com" and "https://wwwexample.com"
ExampleURL == HTTPS \o WWWDOT \o EXAMPLECOM
NoDotURL == HTTPS \o WWW \o EXAMPLECOM
PipelineURLs == {ExampleURL}
UseragentArgs == {<<"random">>, <<"curl/8.0">>}
OutputArgs == {PyNone, PyStr(<<"out.json">>)}
\* useragents.txt as read()
UseragentFile == <<"Mozilla/5.0", "\n", "Opera/9.80">>

EmailMatches == {PyStr(<<"contact@example.com">>)}
Hrefs == {PyStr(<<"/about">>), PyNone}
MetaAuthors == {NoMeta, MetaNoContent, MetaContent(<<"Jane Doe">>)}
\* html.parser closes a <meta> as it opens it: its text is empty
GeoTexts == {<<>>}

EmailPages ==
    {Page(m, <<>>, NoMeta, <<>>, <<>>) : m \in SeqsUpTo(EmailMatches, MaxEmails)}
LinkPages ==
    {Page(<<>>, a, NoMeta, <<>>, <<>>) : a \in SeqsUpTo(Hrefs, MaxAnchors)}
AuthorPages == {Page(<<>>, <<>>, a, <<>>, <<>>) : a \in MetaAuthors}
\* the 4-tuples of groups re.findall(phone_regex, ...) yields, as for
\* "555-123-4567", "+1 800 555 0199" and "555.123.4568"
PhoneTuples ==
    {PyTuple(<<"", "555", "123", "4567">>),
     PyTuple(<<"1", "800", "555", "0199">>),
     PyTuple(<<"", "555", "123", "4568">>)}
PhonePages ==
    {Page(<<>>, <<>>, NoMeta, m, <<>>) : m \in SeqsUpTo(PhoneTuples, MaxPhoneMatches)}
GeoPages ==
    {Page(<<>>, <<>>, NoMeta, <<>>, g) : g \in SeqsUpTo(GeoTexts, MaxGeoMetas)}

\* file.read().split('\n')
RECURSIVE split_lines(_)
split_lines(text) ==
    IF \A i \in DOMAIN text : text[i] # "\n" THEN <<text>>
    ELSE LET i == CHOOSE k \in DOMAIN text :
                      text[k] = "\n" /\ \A m \in 1..(k - 1) : text[m] # "\n"
         IN  <<SubSeq(text, 1, i - 1)>>
             \o split_lines(SubSeq(text, i + 1, Len(text)))

Init ==
    /\ url \in PipelineURLs
    /\ useragent \in UseragentArgs
    /\ output \in OutputArgs
    /\ useragents = <<>>
    /\ pc = "resolve_useragent"
    /\ headers = <<>>
    /\ inFlight = {}
    /\ issued = [op \in Ops |-> 0]
    /\ started = <<>>
    /\ got = [op \in PageOps |-> NotAsked]
    /\ queried = [op \in RegistryOps |-> NotQueried]
    /\ locals = [n \in Range(LocalOf) |-> Unbound]
    /\ written = Nothing
    /\ exit = Running
    /\ arg = PyNone

\* an exception nothing catches ends the process with exit code 1
Crash ==
    /\ pc' = "crashed"
    /\ exit' = Exited(1)

\* Lines 217-222: "random" reads useragents.txt from the working directory
\* (open raises when it is not there), anything else is the one user-agent.
ResolveUseragent ==
    /\ pc = "resolve_useragent"
    /\ \E file_there \in BOOLEAN :
          IF useragent = <<"random">>
          THEN IF file_there
               THEN /\ useragents' = split_lines(UseragentFile)
                    /\ pc' = Pipeline[1]
                    /\ exit' = exit
               ELSE /\ useragents' = useragents
                    /\ Crash
          ELSE /\ file_there
               /\ useragents' = <<useragent>>
               /\ pc' = Pipeline[1]
               /\ exit' = exit
    /\ UNCHANGED <<url, useragent, output, headers, inFlight, issued, started,
                   got, queried, locals, written, arg>>

\* An extractor is called: it picks a user-agent and sends its GET.
IssueGet(op) ==
    /\ pc = op
    /\ op \notin inFlight
    /\ \E i \in DOMAIN useragents : headers' = useragents[i]
    /\ inFlight' = inFlight \cup {op}
    /\ issued' = [issued EXCEPT ![op] = @ + 1]
    /\ started' = Append(started, op)
    /\ UNCHANGED <<url, useragent, output, useragents, pc, got, queried,
                   locals, written, exit, arg>>

\* The coroutine of `op` ends with outcome r: a value bound to its local, or
\* an exception that leaves maincore.
Finish(op, failed, r) ==
    /\ inFlight' = inFlight \ {op}
    /\ headers' = <<>>
    /\ IF r.raised = "none"
       THEN /\ locals' = [locals EXCEPT ![LocalOf[op]] = r.value]
            /\ pc' = after_await(op, failed)
            /\ exit' = exit
       ELSE /\ locals' = locals
            /\ Crash

GetFailed(g) == g.transport # "ok" \/ raise_for_status(g)

\* maincore goes on after a page extractor whose GET came to g
FinishGet(op, g, r) ==
    /\ got' = [got EXCEPT ![op] = g]
    /\ Finish(op, GetFailed(g), r)
    /\ UNCHANGED <<url, useragent, output, useragents, issued, started,
                   queried, written, arg>>

CompleteEmails ==
    /\ "extract_emails" \in inFlight
    /\ \E g \in GetOutcomes, page \in EmailPages :
          FinishGet("extract_emails", g, extract_emails(send_request(g, page)))

CompleteHref ==
    /\ "extract_href" \in inFlight
    /\ \E g \in GetOutcomes, page \in LinkPages :
          FinishGet("extract_href", g, extract_href(send_request(g, page)))

CompleteAuthor ==
    /\ "author_infos" \in inFlight
    /\ \E g \in GetOutcomes, page \in AuthorPages :
          FinishGet("author_infos", g, author_infos(send_request(g, page)))

CompleteLocation ==
    /\ "extract_location" \in inFlight
    /\ \E g \in GetOutcomes, page \in GeoPages :
          FinishGet("extract_location", g,
                    extract_location(send_request(g, page)))


CompletePhone ==
    /\ "extract_phone" \in inFlight
    /\ \E g \in GetOutcomes, page \in PhonePages :
          \E order \in set_orders(page.phone_matches) :
             FinishGet("extract_phone", g,
                       extract_phone(send_request(g, page), order))

(* the WHOIS lookups *)

Dt1 == PyDatetime("1995-08-14T04:00:00", "naive")
Dt2 == PyDatetime("2028-08-13T04:00:00", "+09:00")
\* a date python-whois could not parse is handed over as the text it found
Unparsed == PyStr(<<"before Aug-1996">>)
DateElements == {Dt1, Dt2, Unparsed}

\* what one date attribute of an entry can be
DateValues(n) ==
    {PyNone} \cup DateElements \cup {PyList(l) : l \in SeqsUpTo(DateElements, n)}
PipelineDates == {PyNone, Dt1, PyList(<<Unparsed, Dt2>>)}

\* name_servers: missing, a single name, a list of names
NameServers ==
    {PyNone, PyStr(<<"ns1.example.com">>),
     PyList(<<PyStr(<<"ns1.example.com">>), PyStr(<<"ns2.example.com">>)>>)}

WhoisFailed == Raise("PywhoisError")

\* creation_update asks WHOIS for the domain it derives from the URL
IssueCreationUpdate ==
    /\ pc = "creation_update"
    /\ "creation_update" \notin inFlight
    /\ queried' = [queried EXCEPT !["creation_update"] =
                      [asked |-> TRUE, domain |-> creation_update_domain(url)]]
    /\ inFlight' = inFlight \cup {"creation_update"}
    /\ issued' = [issued EXCEPT !["creation_update"] = @ + 1]
    /\ started' = Append(started, "creation_update")
    /\ UNCHANGED <<url, useragent, output, useragents, pc, headers, got,
                   locals, written, exit, arg>>

CompleteCreationUpdate ==
    /\ "creation_update" \in inFlight
    /\ \E info \in {WhoisFailed} \cup
                   {Return(WhoisEntry(c, e, u, PyNone)) :
                        c \in PipelineDates, e \in PipelineDates,
                        u \in PipelineDates} :
          Finish("creation_update", info.raised # "none", creation_update(info))
    /\ UNCHANGED <<url, useragent, output, useragents, issued, started, got,
                   queried, written, arg>>

IssueServersInfos ==
    /\ pc = "servers_infos"
    /\ "servers_infos" \notin inFlight
    /\ queried' = [queried EXCEPT !["servers_infos"] =
                      [asked |-> TRUE, domain |-> servers_infos_domain(url)]]
    /\ inFlight' = inFlight \cup {"servers_infos"}
    /\ issued' = [issued EXCEPT !["servers_infos"] = @ + 1]
    /\ started' = Append(started, "servers_infos")
    /\ UNCHANGED <<url, useragent, output, useragents, pc, headers, got,
                   locals, written, exit, arg>>

CompleteServersInfos ==
    /\ "servers_infos" \in inFlight
    /\ \E info \in {WhoisFailed} \cup
                   {Return(WhoisEntry(PyNone, PyNone, PyNone, ns)) :
                        ns \in NameServers} :
          Finish("servers_infos", info.raised # "none", servers_infos(info))
    /\ UNCHANGED <<url, useragent, output, useragents, issued, started, got,
                   queried, written, arg>>

\* Lines 232-247: the dict is built and written as JSON, to the file when
\* --output was given (open raises when the path cannot be written), to
\* standard output otherwise.
Write ==
    /\ pc = "write"
    /\ LET doc == json_dumps(merge_result(url, locals.emails, locals.links,
                                          locals.authors, locals.phones,
                                          locals.creation_update_info,
                                          locals.servers, locals.locations))
       IN  \E opened \in BOOLEAN :
              IF output.t = "NoneType"
              THEN /\ opened
                   /\ IF doc.raised = "none"
                      THEN /\ written' = [sink |-> "stdout", doc |-> doc.value]
                           /\ pc' = "done"
                           /\ exit' = Exited(0)
                      ELSE /\ written' = written
                           /\ Crash
              ELSE IF opened /\ doc.raised = "none"
                   THEN /\ written' = [sink |-> "file", doc |-> doc.value]
                        /\ pc' = "done"
                        /\ exit' = Exited(0)
                   ELSE /\ written' = written
                        /\ Crash
    /\ UNCHANGED <<url, useragent, output, useragents, headers, inFlight,
                   issued, started, got, queried, locals, arg>>

Next ==
    \/ ResolveUseragent
    \/ \E op \in PageOps : IssueGet(op)
    \/ CompleteEmails
    \/ CompleteHref
    \/ CompleteAuthor
    \/ CompletePhone
    \/ IssueCreationUpdate
    \/ CompleteCreationUpdate
    \/ IssueServersInfos
    \/ CompleteServersInfos
    \/ CompleteLocation
    \/ Write

Spec == Init /\ [][Next]_vars

----------------------------------------------------------------------------
(* The domain derivation on its own: both lookups applied to one URL *)

UrlPieces == {HTTPS, HTTP, WWWDOT, WWW, EXAMPLECOM, <<"w">>, <<".">>}

RECURSIVE Flatten(_)
Flatten(parts) == IF Len(parts) = 0 THEN <<>> ELSE Head(parts) \o Flatten(Tail(parts))

URLs == {Flatten(parts) : parts \in SeqsUpTo(UrlPieces, MaxUrlParts)}

\* the state of a run in which one function alone is called
FunctionInit(at) ==
    /\ useragent = <<"random">>
    /\ output = PyNone
    /\ useragents = <<>>
    /\ pc = at
    /\ headers = <<>>
    /\ inFlight = {}
    /\ issued = [op \in Ops |-> 0]
    /\ started = <<>>
    /\ got = [op \in PageOps |-> NotAsked]
    /\ queried = [op \in RegistryOps |-> NotQueried]
    /\ locals = [n \in Range(LocalOf) |-> Unbound]
    /\ written = Nothing
    /\ exit = Running

InitDomain ==
    /\ url \in URLs
    /\ arg = PyNone
    /\ FunctionInit("creation_update_domain")

DeriveForDates ==
    /\ pc = "creation_update_domain"
    /\ queried' = [queried EXCEPT !["creation_update"] =
                      [asked |-> TRUE, domain |-> creation_update_domain(url)]]
    /\ pc' = "servers_infos_domain"
    /\ UNCHANGED <<url, useragent, output, useragents, headers, inFlight,
                   issued, started, got, locals, written, exit, arg>>

DeriveForServers ==
    /\ pc = "servers_infos_domain"
    /\ queried' = [queried EXCEPT !["servers_infos"] =
                      [asked |-> TRUE, domain |-> servers_infos_domain(url)]]
    /\ pc' = "returned"
    /\ UNCHANGED <<url, useragent, output, useragents, headers, inFlight,
                   issued, started, got, locals, written, exit, arg>>

NextDomain == DeriveForDates \/ DeriveForServers

SpecDomain == InitDomain /\ [][NextDomain]_vars

----------------------------------------------------------------------------
(* creation_update on its own, over every shape of the three dates *)

InitDates ==
    /\ url = ExampleURL
    /\ arg \in {WhoisFailed} \cup
               {Return(WhoisEntry(c, e, u, PyNone)) :
                    c \in DateValues(MaxDateList),
                    e \in DateValues(MaxDateList),
                    u \in DateValues(MaxDateList)}
    /\ FunctionInit("creation_update")

ApplyCreationUpdate ==
    /\ pc = "creation_update"
    /\ LET r == creation_update(arg)
       IN  /\ r.raised = "none"
           /\ locals' = [locals EXCEPT !.creation_update_info = r.value]
    /\ pc' = "returned"
    /\ UNCHANGED <<url, useragent, output, useragents, headers, inFlight,
                   issued, started, got, queried, written, exit, arg>>

NextDates == ApplyCreationUpdate

SpecDates == InitDates /\ [][NextDates]_vars

----------------------------------------------------------------------------
(* extract_phone on its own, over the pages' raw matches *)

InitPhone ==
    /\ url = ExampleURL
    /\ arg \in PhonePages
    /\ FunctionInit("extract_phone")

ApplyExtractPhone ==
    /\ pc = "extract_phone"
    /\ \E g \in GetOutcomes, order \in set_orders(arg.phone_matches) :
          LET r == extract_phone(send_request(g, arg), order)
          IN  /\ r.raised = "none"
              /\ got' = [got EXCEPT !["extract_phone"] = g]
              /\ locals' = [locals EXCEPT !.phones = r.value]
    /\ pc' = "returned"
    /\ UNCHANGED <<url, useragent, output, useragents, headers, inFlight,
                   issued, started, queried, written, exit, arg>>

NextPhone == ApplyExtractPhone

SpecPhone == InitPhone /\ [][NextPhone]_vars

----------------------------------------------------------------------------
(* Claims *)

\* the members of the JSON object written
Doc == written.doc.v
Emitted == written.sink # "none"
EmptyArray == [j |-> "array", v |-> <<>>]
IsStatusFailure(g) == g.transport = "ok" /\ raise_for_status(g)

\* C1: every record written, to the file or to standard output, is an
\* object with exactly the eight keys target_url, emails, links, authors,
\* phones, creation_update_info, servers and locations, whichever of the
\* extractors and lookups failed.
C1_EightKeys ==
    Emitted => /\ written.doc.j = "object"
               /\ DOMAIN Doc = RecordKeys

\* a record written although a GET timed out, another came back 404 and the
\* date lookup yielded nothing
C1_Witness ==
    /\ Emitted
    /\ got["extract_emails"] = Timeout
    /\ IsStatusFailure(got["extract_href"])
    /\ DOMAIN locals.creation_update_info.v = {}

\* C2: a non-2xx status of any extractor's GET ends the process at once with
\* exit code 1: nothing later in the pipeline is issued and no record is
\* written.
C2_ExitsOnStatus ==
    \A op \in PageOps :
        IsStatusFailure(got[op]) =>
            /\ exit = Exited(1)
            /\ written = Nothing
            /\ \A later \in Ops : IndexOf(later) > IndexOf(op) => issued[later] = 0

\* C3: when all five GETs of a run time out, the record written has
\* emails = [], links = [], authors = null, phones = [], locations = [],
\* both WHOIS lookups were made and their fields are what they returned, and
\* the exit code is 0; no timeout ends the run (the process ends early only
\* where maincore opens a file: useragents.txt, or the output path).
C3_AllTimeouts ==
    /\ (pc = "done" /\ \A op \in PageOps : got[op] = Timeout) =>
           /\ Emitted
           /\ Doc.emails = EmptyArray
           /\ Doc.links = EmptyArray
           /\ Doc.authors = [j |-> "null"]
           /\ Doc.phones = EmptyArray
           /\ Doc.locations = EmptyArray
           /\ issued["creation_update"] = 1
           /\ issued["servers_infos"] = 1
           /\ Doc.creation_update_info = to_json(locals.creation_update_info)
           /\ Doc.servers = to_json(locals.servers)
           /\ exit = Exited(0)
    /\ (exit.done /\ exit.code # 0) =>
           \/ started = <<>> /\ useragent = <<"random">>
           \/ Len(started) = Len(Pipeline) /\ inFlight = {} /\ output.t = "str"

\* all five GETs timed out, the date lookup returned its three dates, and
\* the record is written
C3_Witness ==
    /\ pc = "done"
    /\ \A op \in PageOps : got[op] = Timeout
    /\ DOMAIN locals.creation_update_info.v = DateKeys
    /\ locals.servers.t = "list"
    /\ Len(locals.servers.v) = 2

\* C4: in every record written emails, links, phones, servers and locations
\* are arrays, authors is a string or null and creation_update_info is an
\* object; servers in particular is never null.
C4_Shapes ==
    Emitted =>
        /\ \A k \in {"emails", "links", "phones", "servers", "locations"} :
              Doc[k].j = "array"
        /\ Doc.authors.j \in {"string", "null"}
        /\ Doc.creation_update_info.j = "object"

\* C5: useragent resolution, then the five page extractors, then the date
\* lookup, then the server lookup, then the write: no page extractor is
\* started after a WHOIS lookup was.
C5_ExtractorsBeforeLookups ==
    \A i \in DOMAIN started, k \in DOMAIN started :
        (i < k /\ started[i] \in RegistryOps) => started[k] \notin PageOps

\* C5, amended: the operations are started in the order e-mail, link,
\* author, phone, date lookup, server lookup, location; none before the
\* user-agents are resolved; and the one write comes after all seven have
\* ended.
C5_Order ==
    /\ Len(started) <= 7
    /\ started = SubSeq(<<"extract_emails", "extract_href", "author_infos",
                          "extract_phone", "creation_update", "servers_infos",
                          "extract_location">>, 1, Len(started))
    /\ started # <<>> => useragents # <<>>
    /\ Emitted => Len(started) = 7 /\ inFlight = {} /\ pc = "done"

\* the location extractor in flight, after both lookups
C5_Witness ==
    /\ inFlight = {"extract_location"}
    /\ issued["creation_update"] = 1
    /\ issued["servers_infos"] = 1
    /\ locals.servers # Unbound

\* C6: the domain asked for is the URL without https://, http:// and a
\* leading www.: "example.com" for "https://www.example.com" and also for
\* "https://wwwexample.com"; both lookups ask for the same domain.
C6_DomainAsClaimed ==
    /\ queried["creation_update"].asked =>
          /\ url = ExampleURL => queried["creation_update"].domain = EXAMPLECOM
          /\ url = NoDotURL => queried["creation_update"].domain = EXAMPLECOM
    /\ queried["servers_infos"].asked =>
          queried["servers_infos"].domain = queried["creation_update"].domain

\* C6, amended: the domain asked for is the URL with every occurrence of
\* "https://", of "http://" and of "www." deleted, wherever it stands:
\* "example.com" for "https://www.example.com", and "wwwexample.com" for
\* "https://wwwexample.com"; both lookups ask for the same domain.
C6_Domain ==
    /\ queried["creation_update"].asked =>
          LET d == queried["creation_update"].domain
          IN  /\ url = ExampleURL => d = EXAMPLECOM
              /\ url = NoDotURL => d = WWW \o EXAMPLECOM
              /\ \A scheme \in {<<>>, HTTP, HTTPS} :
                    /\ url = scheme \o WWWDOT \o EXAMPLECOM => d = EXAMPLECOM
                    /\ url = scheme \o EXAMPLECOM \o WWWDOT => d = EXAMPLECOM
                    /\ url = scheme \o EXAMPLECOM => d = EXAMPLECOM
              /\ url = EXAMPLECOM \o HTTP \o HTTPS => d = EXAMPLECOM
    /\ queried["servers_infos"].asked =>
          queried["servers_infos"].domain = queried["creation_update"].domain

\* both lookups have derived their domain from "https://wwwexample.com"
C6_Witness ==
    /\ url = NoDotURL
    /\ queried["creation_update"].asked
    /\ queried["servers_infos"].asked


IsTimestamp(x) == x.t = "datetime"

\* the UTC-qualified ISO-8601 text of a timestamp
IsoUtcOf(d) == PyStr(<<d.v, "+00:00">>)

\* what the claim expects of one date WHOIS returned
ExpectedDate(d) ==
    IF d.t = "list"
    THEN LET kept == SelectSeq(d.v, IsTimestamp)
         IN  PyList([i \in DOMAIN kept |-> IsoUtcOf(kept[i])])
    ELSE IsoUtcOf(d)

\* C7: each of the three dates on its own: a single timestamp becomes one
\* UTC-qualified ISO-8601 string, a sequence becomes the sequence, in order,
\* of the strings of its timestamps, whatever the other two dates are.
C7_EachDateSeparately ==
    (pc = "returned" /\ arg.raised = "none") =>
        \A k \in DateKeys :
            arg.value[k].t \in {"datetime", "list"} =>
                /\ k \in DOMAIN locals.creation_update_info.v
                /\ locals.creation_update_info.v[k] = ExpectedDate(arg.value[k])

\* C8: a number that occurs several times in the page, and no other, gives
\* exactly one entry in phones.
C8_OneEntryPerNumber ==
    (/\ pc = "returned"
     /\ got["extract_phone"] = HttpResponse(200)
     /\ Cardinality(Range(arg.phone_matches)) = 1) =>
        Len(locals.phones.v) = 1

\* C9: at most one network operation is in flight, and it is the one begun
\* last, at which maincore waits; every operation begun earlier has ended;
\* no operation is issued twice, failed or not.
C9_Sequential ==
    /\ Cardinality(inFlight) <= 1
    /\ \A op \in Ops : issued[op] <= 1
    /\ \A op \in inFlight : pc = op /\ started[Len(started)] = op
    /\ \A i \in DOMAIN started :
          /\ issued[started[i]] = 1
          /\ i < Len(started) =>
                /\ started[i] \notin inFlight
                /\ locals[LocalOf[started[i]]] # Unbound

\* a GET has timed out and the next extractor's GET is in flight
C9_Witness ==
    /\ got["extract_emails"] = Timeout
    /\ inFlight = {"extract_href"}
    /\ issued["extract_emails"] = 1

\* C10: creation_update_info is empty or has all three keys; it is empty as
\* soon as one of the three dates is None or a single value that is no
\* timestamp, whatever the other two are.
C10_AllOrNothing ==
    pc = "returned" =>
        LET info == locals.creation_update_info
        IN  /\ info.t = "dict"
            /\ DOMAIN info.v = {} \/ DOMAIN info.v = DateKeys
            /\ (/\ arg.raised = "none"
                /\ \E k \in DateKeys : arg.value[k].t \notin {"datetime", "list"})
                  => DOMAIN info.v = {}
            /\ (/\ arg.raised = "none"
                /\ \A k \in DateKeys : arg.value[k].t \in {"datetime", "list"})
                  => DOMAIN info.v = DateKeys

\* two dates are timestamps, the third is missing, and the mapping is empty
C10_Witness ==
    /\ pc = "returned"
    /\ arg.raised = "none"
    /\ arg.value.creation_date = Dt1
    /\ arg.value.expiration_date = Dt2
    /\ arg.value.updated_date = PyNone
    /\ DOMAIN locals.creation_update_info.v = {}

=============================================================================
